---------------------------- MODULE Spec2Model ----------------------------
(***************************************************************************)
(* MCOM: two engines (host "H", device "D") connected by one ordered       *)
(* transport per direction.  Each engine runs an rx worker and a tx        *)
(* worker; user threads call Channel.tx / Channel.rx.                      *)
(*                                                                         *)
(* The model follows impl/python3/mcom/__init__.py and mqueue.py as run by *)
(* a default CPython interpreter: assert statements are executed, an       *)
(* exception that leaves a worker's loop ends that worker, an exception    *)
(* that leaves Channel.tx / Channel.rx is raised to the calling thread.    *)
(*                                                                         *)
(* Granularity.  Threads interleave between the following steps:           *)
(*   MQueue.put_nowait (Queue.put + MQueuePool.put)  |  Buf.cnt += 1       *)
(*   Queue.get                                       |  Buf.cnt -= 1       *)
(*   MQueuePool.get_queue                                                  *)
(*   one transport write (MCom.__frame_tx)                                 *)
(*   the handling of one received control frame                            *)
(* Bytes of user data are numbered: the k-th byte a user thread hands to   *)
(* tx on a channel has value k (an echo sends back the values received).   *)
(***************************************************************************)
EXTENDS Integers, Sequences, FiniteSets, TLC

(* ------------------------------ bounds -------------------------------- *)
\* number of bytes the host hands to tx on a channel in one call
MaxBytes == 2
\* largest length argument of one rx call of a reader that calls rx for ever
MaxRxLen == 2
\* number of failed rx calls after which such a reader still calls rx again
MaxRaise == 1
\* largest message of the echo scenario
MaxEcho == 1
\* number of bytes sent on each channel of the two-channel scenario
MaxChanBytes == 1
MaxNoBlock == 5
MaxPayload == 260
MaxPeerFree == 2
MaxOpen == 2

(* ------------------------ program constants --------------------------- *)
DATA_UNIT_SIZE == 4
SMALL_FRAME_HEADER_SIZE == 1
LARGE_FRAME_HEADER_SIZE == 2
LARGE_FRAME_FIRST_DATA_UNIT_SIZE == 2
LARGE_FRAME_MIN_DATA_SIZE == 4
MAX_DATA_SIZE == 255 + LARGE_FRAME_MIN_DATA_SIZE
AckFrame_INS == 0
ResumeFrame_INS == 1
ChanListReqFrame_INS == 2
ChanListFrame_INS == 3
\* buffer sizes of channel 0 (MCom.__init__) and of the test's data channels
Ctrl_buf_size == 4
buffer_length == 4
\* tx_max_bytes = None
None == -1
\* the value None of MCom._chan_list, whose other values are sets of channels
NoChanList == {None}

E == {"H", "D"}
Peer(e) == IF e = "H" THEN "D" ELSE "H"

(* ------------------------------ helpers ------------------------------- *)
\* Utils.ceildiv: -(-a // b)
ceildiv_floor(a, b) == a \div b

ceildiv(a, b) == -((-a) \div b)

Zeros(n) == [i \in 1..n |-> 0]

\* Python slice s[a:b] on a sequence (0-based, clipped)
Slice(s, a, b) == SubSeq(s, a + 1, IF b < Len(s) THEN b ELSE Len(s))

(* ---------------------------- frame codec ----------------------------- *)
\* the two assertions of Frame.__init__
FrameOk(chan, data) == chan < 64 /\ Len(data) < MAX_DATA_SIZE

\* Frame.__init__: self._bytes
FrameBytes(chan, data) ==
  LET data_size == Len(data)
      large_frame_size_field == data_size - LARGE_FRAME_MIN_DATA_SIZE
      small_frame_size == IF large_frame_size_field >= 0 THEN 0 ELSE data_size
      byte0 == small_frame_size * 64 + chan
      hdr == IF large_frame_size_field >= 0
             THEN <<byte0, large_frame_size_field>> ELSE <<byte0>>
      raw == hdr \o data
      padlen == Len(raw) % DATA_UNIT_SIZE
  IN IF padlen # 0 THEN raw \o Zeros(DATA_UNIT_SIZE - padlen) ELSE raw

\* int.to_bytes(2, 'little', signed=True) succeeds
AckLevelOk(ackchan, buf_level) ==
  LET v == buf_level * 64 + ackchan IN v >= -32768 /\ v <= 32767

\* AckFrame.__init__ / ResumeFrame.__init__: the frame bytes
AckBytes(ins, ackchan, buf_level) ==
  LET v == (buf_level * 64 + ackchan) % 65536
  IN FrameBytes(0, <<ins, v % 256, v \div 256>>)

\* int.bit_length() of the bitmap with the bits S set
BitLength(S) == IF S = {} THEN 0 ELSE (CHOOSE m \in S : \A c \in S : c <= m) + 1

\* ChanListFrame.__init__: binlist.to_bytes(size, byteorder='little')
BinlistBytes(S) ==
  [k \in 1..ceildiv(BitLength(S), 8) |->
     LET bit(b) == IF 8 * (k - 1) + b \in S THEN 2 ^ b ELSE 0
     IN bit(0) + bit(1) + bit(2) + bit(3) + bit(4) + bit(5) + bit(6) + bit(7)]

\* ChanListFrame.__init__: the frame bytes
ChanListBytes(open_channels_nums) ==
  FrameBytes(0, <<ChanListFrame_INS>> \o BinlistBytes(open_channels_nums))

\* ChanListReqFrame.__init__: the frame bytes
ChanListReqBytes == FrameBytes(0, <<ChanListReqFrame_INS>>)

\* a frame object: its class, Frame.channel, Frame.data and the fields of the
\* control frames; "error" stands for an exception raised by the decoder
ErrFrame == [type |-> "error", channel |-> 0, data |-> <<>>,
             ackchan |-> 0, buf_level |-> 0, open_channels_nums |-> {}]

\* ChanListReqFrame.from_bytes
ChanListReqFromBytes(frame) ==
  IF Len(frame) # DATA_UNIT_SIZE \/ frame[1] # 64 \/ frame[2] # ChanListReqFrame_INS
  THEN ErrFrame
  ELSE [ErrFrame EXCEPT !.type = "ChanListReqFrame", !.data = <<ChanListReqFrame_INS>>]

\* ChanListFrame.from_bytes: the channel numbers of the bits set in
\* int.from_bytes(frame[header_size+1:], 'little') (the code returns them as
\* a list, highest first)
ChanListFromBytes(frame) ==
  LET header_size == IF frame[1] # 0 THEN SMALL_FRAME_HEADER_SIZE
                     ELSE LARGE_FRAME_HEADER_SIZE
      bl == Slice(frame, header_size + 1, Len(frame))
      nums == {n \in 0..(8 * Len(bl) - 1) :
                 (bl[(n \div 8) + 1] \div (2 ^ (n % 8))) % 2 = 1}
      data == <<ChanListFrame_INS>> \o BinlistBytes(nums)
  IN IF Len(frame) <= header_size THEN ErrFrame
     ELSE IF frame[header_size + 1] # ChanListFrame_INS THEN ErrFrame
     ELSE IF ~(Len(data) < MAX_DATA_SIZE) THEN ErrFrame
     ELSE [ErrFrame EXCEPT !.type = "ChanListFrame", !.data = data,
                           !.open_channels_nums = nums]

\* AckFrame.from_bytes (cls.INS = ins)
AckFromBytes(ins, frame) ==
  IF Len(frame) # DATA_UNIT_SIZE \/ frame[1] # 192 \/ frame[2] # ins
  THEN ErrFrame
  ELSE LET u == frame[3] + 256 * frame[4]
           v == IF u >= 32768 THEN u - 65536 ELSE u
       IN [type |-> IF ins = AckFrame_INS THEN "AckFrame" ELSE "ResumeFrame",
           channel |-> 0, data |-> <<ins, frame[3], frame[4]>>,
           ackchan |-> v % 64, buf_level |-> v \div 64,
           open_channels_nums |-> {}]

\* Frame.from_bytes
FromBytes(frame) ==
  LET byte0 == frame[1]
      small_frame_size == byte0 \div 64
      chan == byte0 % 64
      is_large == small_frame_size = 0
      data == IF is_large THEN Slice(frame, LARGE_FRAME_HEADER_SIZE, Len(frame))
              ELSE Slice(frame, SMALL_FRAME_HEADER_SIZE, Len(frame))
  IN IF chan = 0
     THEN IF Len(data) = 0 THEN ErrFrame
          ELSE IF data[1] = AckFrame_INS THEN AckFromBytes(AckFrame_INS, frame)
          ELSE IF data[1] = ResumeFrame_INS THEN AckFromBytes(ResumeFrame_INS, frame)
          ELSE IF data[1] = ChanListReqFrame_INS THEN ChanListReqFromBytes(frame)
          ELSE IF data[1] = ChanListFrame_INS THEN ChanListFromBytes(frame)
          ELSE ErrFrame
     ELSE LET size == IF is_large THEN frame[2] + LARGE_FRAME_MIN_DATA_SIZE
                      ELSE small_frame_size
              d == Slice(data, 0, size)
          IN IF FrameOk(chan, d)
             THEN [type |-> "Frame", channel |-> chan, data |-> d,
                   ackchan |-> 0, buf_level |-> 0, open_channels_nums |-> {}]
             ELSE ErrFrame

\* MCom.__frame_rx: number of data units read after the first one
TailDataUnits(head) ==
  IF head[1] \div 64 = 0
  THEN ceildiv(head[2] + LARGE_FRAME_MIN_DATA_SIZE - LARGE_FRAME_FIRST_DATA_UNIT_SIZE,
               DATA_UNIT_SIZE)
  ELSE 0

(* ------------------------------- state -------------------------------- *)
VARIABLES
  channels,   \* channels[e][num]: MCom._channels, each a Channel
  tx_pool,    \* tx_pool[e]: MCom._tx_pool (MQueuePool)
  rx_pool,    \* rx_pool[e]: MCom._rx_pool (MQueuePool)
  wire,       \* wire[e]: frames written by e's transport, not yet read by the peer
  tx_trace,   \* tx_trace[e]: every frame e's tx worker has written, in order
  txw,        \* txw[e]: the tx worker thread of e
  rxw,        \* rxw[e]: the rx worker thread of e
  usr,        \* usr[t]: the user threads
  sent,       \* sent[e][c]: bytes Channel.tx has put into tx_buf, in order
  got,        \* got[e][c]: bytes Channel.rx has returned to its caller, in order
  chan_list,  \* chan_list[e]: MCom._chan_list
  chan0_res_event  \* chan0_res_event[e]: MCom._chan0_res_event is set

vars == <<channels, tx_pool, rx_pool, wire, tx_trace, txw, rxw, usr, sent, got,
          chan_list, chan0_res_event>>

\* Channel.Buf.__init__
Buf(size, has_tx_buf) ==
  IF has_tx_buf
  THEN [size |-> size, cnt |-> 0, buf |-> <<>>, tx_buf |-> <<>>]
  ELSE [size |-> size, cnt |-> 0, buf |-> <<>>]

\* Channel.__init__
Channel(num, rx_buf_size, tx_buf_size) ==
  [num |-> num,
   rx_buf |-> Buf(rx_buf_size, FALSE),
   tx_buf |-> Buf(tx_buf_size, TRUE),
   tx_max_bytes |-> MAX_DATA_SIZE,
   rx_stalled |-> FALSE,
   ack_done |-> FALSE]

\* MQueuePool.__init__
MQueuePool == [with_new_dat |-> {}, e |-> FALSE]

\* MQueuePool.put
PoolPut(pool, q) == [with_new_dat |-> pool.with_new_dat \cup {q}, e |-> TRUE]

\* Queue.put with the test len(queue) > maxsize
QueueFull_gt(b) == b.size > 0 /\ Len(b.buf) > b.size

\* Queue.put(item, block=False) raises Full (maxsize = 0 is unbounded)
QueueFull(b) == b.size > 0 /\ Len(b.buf) >= b.size

\* Buf.free_size
free_size(b) == b.size - b.cnt

\* MCom.__init__ followed by open_channel for every data channel in nums
MComInit(nums, rx_buf_size, tx_buf_size) ==
  [n \in nums \cup {0} |->
     IF n = 0 THEN Channel(0, Ctrl_buf_size, Ctrl_buf_size)
     ELSE Channel(n, rx_buf_size, tx_buf_size)]

\* the worker threads before they have run
TxWorkerInit == [pc |-> "get_queue", q |-> 0, kind |-> "", need |-> 0,
                 out |-> <<>>, head |-> <<>>, err |-> ""]
RxWorkerInit == [pc |-> "frame_rx", chan |-> 0, dat |-> <<>>, cnt |-> 0,
                 all |-> 0, err |-> ""]

\* a user thread bound to channel c of engine e.  role "script": the thread
\* makes the calls of todo in order and ends with the first exception (as the
\* test script does); role "reader": the thread calls rx again and again.
\* block, arg: the arguments of the thread's last call of tx; ret: the value
\* that call returned, None before it returns; free0: free_size() of the tx
\* buffer when the last call tx(block=False) was made; chans: the value
\* chan_list_req returned; timeout: whether the thread's last call of rx had
\* a timeout; pre: the rx buffer when the last call of rx with a timeout was
\* made; err: "Empty" once a timeout has ended it
User(e, c, role, todo) ==
  [e |-> e, c |-> c, role |-> role, todo |-> todo,
   pc |-> "idle", dat |-> <<>>, out |-> <<>>, need |-> 0, buf |-> <<>>,
   exc |-> 0, chans |-> NoChanList,
   block |-> TRUE, ret |-> None, arg |-> <<>>, free0 |-> 0,
   timeout |-> FALSE, pre |-> Buf(0, FALSE), err |-> ""]

OpTx(n) == [op |-> "tx", n |-> n]
OpRx(n) == [op |-> "rx", n |-> n]
OpRxTimeout(n) == [op |-> "rx_timeout", n |-> n]
OpEcho == [op |-> "echo", n |-> 0]
OpOpenChannel(num, rx_buf_size, tx_buf_size) ==
  [op |-> "open_channel", n |-> 0, num |-> num, rx_buf_size |-> rx_buf_size,
   tx_buf_size |-> tx_buf_size]
OpTxNoBlock(n) == [op |-> "tx_noblock", n |-> n]
OpChanListReq == [op |-> "chan_list_req", n |-> 0]
OpClose == [op |-> "close_connection", n |-> 0]
OpRxAny(n) == [op |-> "rx_any", n |-> n]

\* two engines with the data channels nums open on both sides, workers
\* started, nothing sent yet
InitEngines(nums, users) ==
  /\ channels = [e \in E |-> MComInit(nums, buffer_length, buffer_length)]
  /\ tx_pool = [e \in E |-> MQueuePool]
  /\ rx_pool = [e \in E |-> MQueuePool]
  /\ wire = [e \in E |-> <<>>]
  /\ tx_trace = [e \in E |-> <<>>]
  /\ txw = [e \in E |-> TxWorkerInit]
  /\ rxw = [e \in E |-> RxWorkerInit]
  /\ usr = users
  /\ sent = [e \in E |-> [c \in nums |-> <<>>]]
  /\ got = [e \in E |-> [c \in nums |-> <<>>]]
  /\ chan_list = [e \in E |-> NoChanList]
  /\ chan0_res_event = [e \in E |-> FALSE]

\* Spec: the host hands MaxBytes bytes to tx on channel 1 in one call; the
\* device's user reads channel 1 with rx calls of any length up to MaxRxLen
Init ==
  InitEngines({1}, "h_tx" :> User("H", 1, "script", <<OpTx(MaxBytes)>>)
                   @@ "d_rx" :> User("D", 1, "reader", <<>>))

\* SpecStall: the host hands exactly one rx buffer of bytes to tx; the device's
\* user makes one rx call, for one byte or for one byte more than was sent
FillLen == buffer_length
InitStall ==
  \E n \in {1, FillLen + 1} :
    InitEngines({1}, "h_tx" :> User("H", 1, "script", <<OpTx(FillLen)>>)
                     @@ "d_rx" :> User("D", 1, "script", <<OpRx(n)>>))

\* SpecFlood (scenario S2 before the device's user reads): the host hands two
\* buffers of bytes to tx in one call, nobody reads
FloodLen == 2 * buffer_length
InitFlood ==
  InitEngines({1}, "h_tx" :> User("H", 1, "script", <<OpTx(FloodLen)>>))

\* Spec2Chan: the host sends MaxChanBytes bytes on channel 1, which nobody
\* reads, and as many on channel 2, which the device's user reads
Init2Chan ==
  InitEngines({1, 2}, "h_tx1" :> User("H", 1, "script", <<OpTx(MaxChanBytes)>>)
                      @@ "h_tx2" :> User("H", 2, "script", <<OpTx(MaxChanBytes)>>)
                      @@ "d_rx2" :> User("D", 2, "reader", <<>>))

\* SpecEcho (scenario S1): the host sends n bytes and reads n bytes back; the
\* device reads n bytes and sends them back
InitEcho ==
  \E n \in 1..MaxEcho :
    InitEngines({1}, "host" :> User("H", 1, "script", <<OpTx(n), OpRx(n)>>)
                     @@ "device" :> User("D", 1, "script", <<OpRx(n), OpEcho>>))

\* SpecChanList (the start of the test script): the device has the channels
\* 1, 2, 20 and 63 open, the host channel 1.  The host calls chan_list_req and
\* then close_connection; the device's user does nothing, or calls
\* close_connection at any time, or sends one byte on channel 1
HostChans == {1}
DeviceChans == {1, 2, 20, 63}
InitChanList ==
  /\ channels = [e \in E |-> MComInit(IF e = "H" THEN HostChans ELSE DeviceChans,
                                       buffer_length, buffer_length)]
  /\ tx_pool = [e \in E |-> MQueuePool]
  /\ rx_pool = [e \in E |-> MQueuePool]
  /\ wire = [e \in E |-> <<>>]
  /\ tx_trace = [e \in E |-> <<>>]
  /\ txw = [e \in E |-> TxWorkerInit]
  /\ rxw = [e \in E |-> RxWorkerInit]
  /\ \E d \in {<<>>, "d_close" :> User("D", 0, "script", <<OpClose>>),
                "d_tx" :> User("D", 1, "script", <<OpTx(1)>>)} :
       usr = "host" :> User("H", 0, "script", <<OpChanListReq, OpClose>>) @@ d
  /\ sent = [e \in E |-> [c \in DOMAIN channels[e] |-> <<>>]]
  /\ got = [e \in E |-> [c \in DOMAIN channels[e] |-> <<>>]]
  /\ chan_list = [e \in E |-> NoChanList]
  /\ chan0_res_event = [e \in E |-> FALSE]

\* SpecTxNoBlock: before start_com (no worker thread runs) the host's user
\* makes two calls tx(block=False) on channel 1, of 0..MaxNoBlock bytes each
InitTxNoBlock ==
  \E a, b \in 0..MaxNoBlock :
    InitEngines({1}, "h_nb" :> User("H", 1, "script",
                                    <<OpTxNoBlock(a), OpTxNoBlock(b)>>))

\* SpecRxTimeout: the host hands MaxBytes bytes to tx on channel 1; the
\* device's user makes one call Channel.rx(MaxRxLen, block=True, timeout)
InitRxTimeout ==
  InitEngines({1}, "h_tx" :> User("H", 1, "script", <<OpTx(MaxBytes)>>)
                   @@ "d_rx" :> User("D", 1, "script", <<OpRxTimeout(MaxRxLen)>>))

\* SpecCodec: a thread builds one frame object and decodes its bytes again.
\* The frames: data frames on the first and the last data channel with every
\* payload length up to MaxPayload; ACK and RESUME frames for the first and
\* last channels with every level of the 10-bit signed field and one beyond
\* each end; CHAN_LIST_REQ; CHAN_LIST for the subsets of CodecListChans
CodecDataChans == {1, 63}
CodecAckChans == {0, 1, 63}
CodecLevels == -513..512
CodecListChans == {0, 1, 2, 7, 8, 20, 63}
Payload(n) == [i \in 1..n |-> i % 256]
CodecFrames ==
  {[ErrFrame EXCEPT !.type = "Frame", !.channel = c, !.data = Payload(n)] :
     c \in CodecDataChans, n \in 0..MaxPayload}
  \cup {[ErrFrame EXCEPT !.type = ty, !.ackchan = c, !.buf_level = l] :
          ty \in {"AckFrame", "ResumeFrame"}, c \in CodecAckChans, l \in CodecLevels}
  \cup {[ErrFrame EXCEPT !.type = "ChanListReqFrame"]}
  \cup {[ErrFrame EXCEPT !.type = "ChanListFrame", !.open_channels_nums = S] :
          S \in SUBSET CodecListChans}
InitCodec ==
  \E f \in CodecFrames :
    InitEngines({1}, "codec" :> [pc |-> "new", frame |-> f, bytes |-> <<>>,
                                 decoded |-> ErrFrame])

\* SpecPeer: the host's user hands two bytes to tx on channel 1, twice.  The
\* device is any engine that keeps to the frame formats (such as this code
\* run with assertions disabled, where _add_to_rx_buf returns -cnt): it
\* answers every data frame with an ACK, partial or full, and sends a RESUME
\* after a partial one
InitPeer ==
  InitEngines({1}, "h_tx" :> User("H", 1, "script", <<OpTx(2), OpTx(2)>>))

\* SpecOpen: before start_com the host's user makes MaxOpen calls of
\* open_channel, with any of the numbers OpenNums (0 is the control channel,
\* opened by the constructor) and any of the buffer sizes OpenSizes
OpenNums == {0, 1, 2, 64}
OpenSizes == {0, 3, 4}
OpenOps ==
  {OpOpenChannel(num, rx, tx) : num \in OpenNums, rx \in OpenSizes, tx \in OpenSizes}
InitOpen ==
  \E todo \in [1..MaxOpen -> OpenOps] :
    InitEngines({}, "h_open" :> User("H", 0, "script", todo))

\* SpecPending: the host and the device have channel 1 open; the host's user
\* calls chan_list_req MaxReq times, one call after the other
MaxReq == 66
InitPending ==
  InitEngines({1}, "h_req" :> User("H", 0, "script", [i \in 1..MaxReq |-> OpChanListReq]))

\* SpecAnyRx: the host hands MaxAnyBytes bytes to tx on channel 1; two user
\* threads of the device each call rx(channel=None, length=1, block=True)
MaxAnyBytes == 2
InitAnyRx ==
  InitEngines({1}, "h_tx" :> User("H", 1, "script", <<OpTx(MaxAnyBytes)>>)
                   @@ "d_rx_a" :> User("D", None, "script", <<OpRxAny(1)>>)
                   @@ "d_rx_b" :> User("D", None, "script", <<OpRxAny(1)>>))

\* SpecBigRx: the channels 1 are opened with a tx buffer of buffer_length bytes
\* and an rx buffer of any of the sizes RxBufSizes; the host hands one byte to
\* tx, nobody reads
RxBufSizes == {buffer_length, MAX_DATA_SIZE + 2, 513}
InitBigRx ==
  \E rx_buf_size \in RxBufSizes :
    /\ channels = [e \in E |-> MComInit({1}, rx_buf_size, buffer_length)]
    /\ tx_pool = [e \in E |-> MQueuePool]
    /\ rx_pool = [e \in E |-> MQueuePool]
    /\ wire = [e \in E |-> <<>>]
    /\ tx_trace = [e \in E |-> <<>>]
    /\ txw = [e \in E |-> TxWorkerInit]
    /\ rxw = [e \in E |-> RxWorkerInit]
    /\ usr = "h_tx" :> User("H", 1, "script", <<OpTx(1)>>)
    /\ sent = [e \in E |-> [c \in {1} |-> <<>>]]
    /\ got = [e \in E |-> [c \in {1} |-> <<>>]]
    /\ chan_list = [e \in E |-> NoChanList]
    /\ chan0_res_event = [e \in E |-> FALSE]

\* SpecBadFrame: host and device have channel 1 open and no user thread; the
\* device receives up to MaxInject frames, each any of PeerFrames: data, ACK
\* and RESUME frames that name channel 1 or the absent channel 2, and a
\* channel-0 frame whose INS is none of the four known ones
MaxInject == 2
AbsentChan == 2
UnknownINS == ChanListFrame_INS + 1
PeerFrames ==
  {FrameBytes(c, <<1>>) : c \in {1, AbsentChan}}
  \cup {AckBytes(ins, c, 2) : ins \in {AckFrame_INS, ResumeFrame_INS}, c \in {1, AbsentChan}}
  \cup {FrameBytes(0, <<UnknownINS, 0, 0>>)}
InitBadFrame == InitEngines({1}, <<>>)

(* ---------------------------- user threads ---------------------------- *)
\* the calls a user thread may make next
Ops(t) ==
  LET u == usr[t] IN
  IF u.role = "reader" THEN {OpRx(n) : n \in 1..MaxRxLen}
  ELSE IF u.todo # <<>> THEN {Head(u.todo)} ELSE {}

\* the next n byte values a user hands to tx
Fresh(e, c, n) == [i \in 1..n |-> Len(sent[e][c]) + i]

\* a call ends with an exception
Raise(u) ==
  [u EXCEPT !.exc = @ + 1, !.dat = <<>>, !.out = <<>>, !.need = 0,
            !.pc = IF u.role = "reader" /\ u.exc < MaxRaise THEN "idle" ELSE "raised"]

\* Buf.put returns cnt, the number of bytes it has put
Accepted(u) == Len(u.arg) - Len(u.dat)

\* a call returns
Return(u) ==
  [u EXCEPT !.pc = "idle", !.dat = <<>>, !.out = <<>>, !.need = 0,
            !.todo = IF u.role = "script" THEN Tail(@) ELSE @]

\* MCom.tx -> Channel.tx: ack_done := False, then Buf.put starts
\* MCom.rx -> Channel.rx, or Channel.rx(length, block=True, timeout): Buf.get
\* starts
UserCall(t) ==
  /\ usr[t].pc = "idle"
  /\ \E o \in Ops(t) :
       LET u == usr[t] IN
       /\ o.op \in {"rx", "rx_timeout", "tx", "tx_noblock", "echo"}
       /\ IF o.op \in {"rx", "rx_timeout"}
          THEN /\ usr' = [usr EXCEPT ![t].pc = "get_deq", ![t].need = o.n,
                                     ![t].out = <<>>,
                                     ![t].timeout = (o.op = "rx_timeout"),
                                     ![t].pre = IF o.op = "rx_timeout"
                                                THEN channels[u.e][u.c].rx_buf ELSE @]
               /\ UNCHANGED channels
          ELSE LET data == IF o.op = "echo" THEN u.buf ELSE Fresh(u.e, u.c, o.n) IN
               /\ usr' = [usr EXCEPT ![t].pc = "put_enq", ![t].dat = data,
                            ![t].block = (o.op # "tx_noblock"),
                            ![t].ret = None, ![t].arg = data,
                            ![t].free0 = IF o.op = "tx_noblock"
                                         THEN free_size(channels[u.e][u.c].tx_buf)
                                         ELSE @]
               /\ channels' = [channels EXCEPT ![u.e][u.c].ack_done = FALSE]
  /\ UNCHANGED <<tx_pool, rx_pool, wire, tx_trace, txw, rxw, sent, got,
               chan_list, chan0_res_event>>

\* Buf.put, one byte: MQueue.put -> put_nowait (Queue.put(block=False), then
\* MQueuePool.put); on Full `assert(not block)` fails with block=True and
\* Buf.put returns cnt with block=False
UserPutEnq(t) ==
  LET u == usr[t]
      b == channels[u.e][u.c].tx_buf IN
  /\ u.pc = "put_enq"
  /\ IF u.dat = <<>>
     THEN /\ usr' = [usr EXCEPT ![t] = [Return(u) EXCEPT !.ret = Accepted(u)]]
          /\ UNCHANGED <<channels, tx_pool, sent>>
     ELSE IF QueueFull(b)
     THEN /\ usr' = [usr EXCEPT ![t] = IF u.block THEN Raise(u)
                                       ELSE [Return(u) EXCEPT !.ret = Accepted(u)]]
          /\ UNCHANGED <<channels, tx_pool, sent>>
     ELSE /\ channels' = [channels EXCEPT ![u.e][u.c].tx_buf.buf = Append(@, Head(u.dat))]
          /\ tx_pool' = [tx_pool EXCEPT ![u.e] = PoolPut(@, u.c)]
          /\ sent' = [sent EXCEPT ![u.e][u.c] = Append(@, Head(u.dat))]
          /\ usr' = [usr EXCEPT ![t].pc = "put_cnt"]
  /\ UNCHANGED <<rx_pool, wire, tx_trace, txw, rxw, got,
               chan_list, chan0_res_event>>

\* Buf.put, one byte: self.cnt += 1; after the last byte Channel.tx returns
\* (to chan_list_req, which then waits for the event, or to the user)
UserPutCnt(t) ==
  LET u == usr[t] IN
  /\ u.pc = "put_cnt"
  /\ channels' = [channels EXCEPT ![u.e][u.c].tx_buf.cnt = @ + 1]
  /\ usr' = [usr EXCEPT ![t] =
               IF Len(u.dat) > 1 THEN [u EXCEPT !.pc = "put_enq", !.dat = Tail(@)]
               ELSE IF u.role = "script" /\ Head(u.todo) = OpChanListReq
               THEN [u EXCEPT !.pc = "event_wait", !.dat = <<>>]
               ELSE [Return(u) EXCEPT !.ret = Len(u.arg)]]
  /\ UNCHANGED <<tx_pool, rx_pool, wire, tx_trace, txw, rxw, sent, got,
               chan_list, chan0_res_event>>

\* Buf.get, one byte: Queue.get(block=True) waits for a byte
UserGetDeq(t) ==
  LET u == usr[t]
      b == channels[u.e][u.c].rx_buf IN
  /\ u.pc = "get_deq"
  /\ b.buf # <<>>
  /\ channels' = [channels EXCEPT ![u.e][u.c].rx_buf.buf = Tail(@)]
  /\ usr' = [usr EXCEPT ![t].pc = "get_dec", ![t].out = Append(@, Head(b.buf))]
  /\ UNCHANGED <<tx_pool, rx_pool, wire, tx_trace, txw, rxw, sent, got,
               chan_list, chan0_res_event>>

\* Buf.get, one byte: Queue.get(block=True, timeout) finds no byte before the
\* timeout expires and raises Empty; `assert(not block)` fails
UserGetTimeout(t) ==
  LET u == usr[t]
      b == channels[u.e][u.c].rx_buf IN
  /\ u.pc = "get_deq"
  /\ u.timeout
  /\ b.buf = <<>>
  /\ usr' = [usr EXCEPT ![t] = [Raise(u) EXCEPT !.err = "Empty"]]
  /\ UNCHANGED <<channels, tx_pool, rx_pool, wire, tx_trace, txw, rxw, sent, got,
                 chan_list, chan0_res_event>>

\* Buf.get, one byte: self.cnt -= 1; assert(self.cnt >= 0)
UserGetDec(t) ==
  LET u == usr[t]
      b == channels[u.e][u.c].rx_buf IN
  /\ u.pc = "get_dec"
  /\ channels' = [channels EXCEPT ![u.e][u.c].rx_buf.cnt = @ - 1]
  /\ usr' = [usr EXCEPT ![t] =
               IF b.cnt - 1 < 0 THEN Raise(u)
               ELSE [u EXCEPT !.need = @ - 1,
                              !.pc = IF u.need = 1 THEN "get_ret" ELSE "get_deq"]]
  /\ UNCHANGED <<tx_pool, rx_pool, wire, tx_trace, txw, rxw, sent, got,
               chan_list, chan0_res_event>>

\* Channel.rx after Buf.get: if rx_stalled and len(out) > 0: put_empty
UserGetRet(t) ==
  LET u == usr[t]
      ch == channels[u.e][u.c] IN
  /\ u.pc = "get_ret"
  /\ tx_pool' = IF ch.rx_stalled /\ Len(u.out) > 0
                THEN [tx_pool EXCEPT ![u.e] = PoolPut(@, u.c)] ELSE tx_pool
  /\ got' = [got EXCEPT ![u.e][u.c] = @ \o u.out]
  /\ usr' = [usr EXCEPT ![t] = [Return(u) EXCEPT !.buf = u.out]]
  /\ UNCHANGED <<channels, rx_pool, wire, tx_trace, txw, rxw, sent,
               chan_list, chan0_res_event>>

\* MCom.chan_list_req up to the start of Buf.put: the event is cleared,
\* _chan_list := None, channels[0].tx(ChanListReqFrame().bytes) starts
UserChanListReq(t) ==
  LET u == usr[t] IN
  /\ u.pc = "idle"
  /\ OpChanListReq \in Ops(t)
  /\ chan0_res_event' = [chan0_res_event EXCEPT ![u.e] = FALSE]
  /\ chan_list' = [chan_list EXCEPT ![u.e] = NoChanList]
  /\ channels' = [channels EXCEPT ![u.e][0].ack_done = FALSE]
  /\ usr' = [usr EXCEPT ![t].pc = "put_enq", ![t].dat = ChanListReqBytes,
                        ![t].arg = ChanListReqBytes]
  /\ UNCHANGED <<tx_pool, rx_pool, wire, tx_trace, txw, rxw, sent, got>>

\* MCom.chan_list_req: self._chan0_res_event.wait(); return self._chan_list
UserEventWait(t) ==
  LET u == usr[t] IN
  /\ u.pc = "event_wait"
  /\ chan0_res_event[u.e]
  /\ usr' = [usr EXCEPT ![t] = [Return(u) EXCEPT !.chans = chan_list[u.e]]]
  /\ UNCHANGED <<channels, tx_pool, rx_pool, wire, tx_trace, txw, rxw, sent, got,
                 chan_list, chan0_res_event>>

\* MCom.close_connection: self._tx_pool.put(None)
UserCloseConnection(t) ==
  LET u == usr[t] IN
  /\ u.pc = "idle"
  /\ OpClose \in Ops(t)
  /\ tx_pool' = [tx_pool EXCEPT ![u.e] = PoolPut(@, None)]
  /\ usr' = [usr EXCEPT ![t] = Return(u)]
  /\ UNCHANGED <<channels, rx_pool, wire, tx_trace, txw, rxw, sent, got,
                 chan_list, chan0_res_event>>

\* MCom.rx(channel=None, length, block=True) up to the end of the first locked
\* section of MQueuePool.get_queue: if with_new_dat is not empty the event is
\* cleared, an element is popped and Channel.rx(length, block) starts on the
\* channel popped; else the thread goes on to self.e.wait()
UserRxAny(t) ==
  LET u == usr[t]
      pool == rx_pool[u.e] IN
  /\ u.pc = "idle"
  /\ \E o \in Ops(t) :
       /\ o.op = "rx_any"
       /\ IF pool.with_new_dat # {}
          THEN \E q \in pool.with_new_dat :
                 /\ rx_pool' = [rx_pool EXCEPT ![u.e] =
                                  [with_new_dat |-> pool.with_new_dat \ {q}, e |-> FALSE]]
                 /\ usr' = [usr EXCEPT ![t] =
                              IF q = 0 THEN [Raise(u) EXCEPT !.err = "AssertionError"]
                              ELSE [u EXCEPT !.pc = "get_deq", !.c = q, !.need = o.n,
                                             !.out = <<>>, !.timeout = FALSE]]
          ELSE /\ usr' = [usr EXCEPT ![t].pc = "gq_wait", ![t].need = o.n,
                                     ![t].out = <<>>, ![t].timeout = FALSE]
               /\ UNCHANGED rx_pool
  /\ UNCHANGED <<channels, tx_pool, wire, tx_trace, txw, rxw, sent, got,
               chan_list, chan0_res_event>>

\* MQueuePool.get_queue, self.e.wait(timeout=None): Event.wait returns at once
\* if the flag is set; else the thread blocks until a call of set()
UserPoolWait(t) ==
  LET u == usr[t] IN
  /\ u.pc = "gq_wait"
  /\ usr' = [usr EXCEPT ![t].pc = IF rx_pool[u.e].e THEN "gq_second" ELSE "gq_blocked"]
  /\ UNCHANGED <<channels, tx_pool, rx_pool, wire, tx_trace, txw, rxw, sent, got,
               chan_list, chan0_res_event>>

\* MQueuePool.put on the rx pool of e, self.e.set(): every thread blocked in
\* self.e.wait() is woken up and its wait returns, whatever becomes of the flag
\* afterwards
EventSet(e) ==
  [t \in DOMAIN usr |->
     IF usr[t].e = e /\ usr[t].pc = "gq_blocked"
     THEN [usr[t] EXCEPT !.pc = "gq_second"] ELSE usr[t]]

\* MQueuePool.get_queue, second locked section: if the flag is not set
\* raise Empty(); else the flag is cleared, an element is popped (KeyError if
\* there is none) and Channel.rx(length, block) starts on the channel popped
UserPoolSecond(t) ==
  LET u == usr[t]
      pool == rx_pool[u.e] IN
  /\ u.pc = "gq_second"
  /\ IF ~pool.e
     THEN /\ usr' = [usr EXCEPT ![t] = [Raise(u) EXCEPT !.err = "Empty"]]
          /\ UNCHANGED rx_pool
     ELSE IF pool.with_new_dat = {}
     THEN /\ usr' = [usr EXCEPT ![t] = [Raise(u) EXCEPT !.err = "KeyError"]]
          /\ rx_pool' = [rx_pool EXCEPT ![u.e].e = FALSE]
     ELSE \E q \in pool.with_new_dat :
            /\ rx_pool' = [rx_pool EXCEPT ![u.e] =
                             [with_new_dat |-> pool.with_new_dat \ {q}, e |-> FALSE]]
            /\ usr' = [usr EXCEPT ![t] =
                         IF q = 0 THEN [Raise(u) EXCEPT !.err = "AssertionError"]
                         ELSE [u EXCEPT !.pc = "get_deq", !.c = q]]
  /\ UNCHANGED <<channels, tx_pool, wire, tx_trace, txw, rxw, sent, got,
               chan_list, chan0_res_event>>

\* the constructors Frame(chan, data), AckFrame(ackchan, buf_level),
\* ResumeFrame(ackchan, buf_level), ChanListReqFrame() and
\* ChanListFrame(open_channels_nums): whether the object is built
NewOk(f) ==
  IF f.type = "Frame" THEN FrameOk(f.channel, f.data)
  ELSE IF f.type \in {"AckFrame", "ResumeFrame"} THEN AckLevelOk(f.ackchan, f.buf_level)
  ELSE TRUE

\* the bytes property of the object built
NewBytes(f) ==
  IF f.type = "Frame" THEN FrameBytes(f.channel, f.data)
  ELSE IF f.type = "AckFrame" THEN AckBytes(AckFrame_INS, f.ackchan, f.buf_level)
  ELSE IF f.type = "ResumeFrame" THEN AckBytes(ResumeFrame_INS, f.ackchan, f.buf_level)
  ELSE IF f.type = "ChanListReqFrame" THEN ChanListReqBytes
  ELSE ChanListBytes(f.open_channels_nums)

\* a thread calls a frame constructor
FrameNew(t) ==
  LET u == usr[t] IN
  /\ u.pc = "new"
  /\ usr' = [usr EXCEPT ![t] = IF NewOk(u.frame)
                                THEN [u EXCEPT !.pc = "built", !.bytes = NewBytes(u.frame)]
                                ELSE [u EXCEPT !.pc = "raised"]]
  /\ UNCHANGED <<channels, tx_pool, rx_pool, wire, tx_trace, txw, rxw, sent, got,
                 chan_list, chan0_res_event>>

\* a thread calls Frame.from_bytes on the bytes of the frame it has built
FrameFromBytes(t) ==
  LET u == usr[t] IN
  /\ u.pc = "built"
  /\ usr' = [usr EXCEPT ![t].pc = "decoded", ![t].decoded = FromBytes(u.bytes)]
  /\ UNCHANGED <<channels, tx_pool, rx_pool, wire, tx_trace, txw, rxw, sent, got,
                 chan_list, chan0_res_event>>

\* open_channel without the test that the number is new
open_channel_ok_nodup(chs, num, rx_buf_size, tx_buf_size) ==
  /\ rx_buf_size # 0 => rx_buf_size >= 4
  /\ tx_buf_size # 0 => tx_buf_size >= 4

\* MCom.open_channel: the assertions on its arguments
open_channel_ok(chs, num, rx_buf_size, tx_buf_size) ==
  /\ num \notin DOMAIN chs
  /\ rx_buf_size # 0 => rx_buf_size >= 4
  /\ tx_buf_size # 0 => tx_buf_size >= 4

\* MCom.open_channel: the assertions, then the new Channel is put into
\* _channels (and is given the two pools, which does not change them)
UserOpenChannel(t) ==
  LET u == usr[t]
      o == Head(u.todo) IN
  /\ u.pc = "idle"
  /\ u.todo # <<>>
  /\ o.op = "open_channel"
  /\ IF open_channel_ok(channels[u.e], o.num, o.rx_buf_size, o.tx_buf_size)
     THEN /\ channels' = [channels EXCEPT ![u.e] =
                            (o.num :> Channel(o.num, o.rx_buf_size, o.tx_buf_size)) @@ @]
          /\ sent' = [sent EXCEPT ![u.e] = (o.num :> <<>>) @@ @]
          /\ got' = [got EXCEPT ![u.e] = (o.num :> <<>>) @@ @]
          /\ usr' = [usr EXCEPT ![t] = Return(u)]
     ELSE /\ usr' = [usr EXCEPT ![t] = Raise(u)]
          /\ UNCHANGED <<channels, sent, got>>
  /\ UNCHANGED <<tx_pool, rx_pool, wire, tx_trace, txw, rxw, chan_list,
                 chan0_res_event>>

(* ------------------------------ rx worker ----------------------------- *)
\* an exception leaves the worker's loop
Die_goes_on(w, err) == [w EXCEPT !.err = err]

Die(w, err) == [w EXCEPT !.pc = "dead", !.err = err]

\* Channel._ack_tx with Buf.full_ack / Buf.partial_ack; post: put_empty is called
ack_tx(ch, length) ==
  IF length > 0
  THEN [ch |-> [ch EXCEPT !.tx_max_bytes = length, !.tx_buf.tx_buf = <<>>],
        post |-> ch.tx_buf.cnt # 0]
  ELSE [ch |-> [ch EXCEPT !.tx_buf.tx_buf = Slice(@, -length, Len(@))],
        post |-> FALSE]

\* Channel._resume_tx; put_empty is always called
resume_tx(ch, length) == [ch EXCEPT !.tx_max_bytes = length]

add_to_rx_buf_level_size(b, cnt, all) == IF cnt < all THEN -cnt ELSE b.size

\* Channel._add_to_rx_buf after Buf.put has returned cnt = accepted bytes:
\* the value returned
add_to_rx_buf_level(b, cnt, all) == IF cnt < all THEN -cnt ELSE free_size(b)

\* Channel._add_to_rx_buf: whether rx_stalled is set
add_to_rx_buf_stalls(b, cnt, all) == cnt < all \/ free_size(b) = 0

\* rx_worker: __frame_rx reads one frame; an ACK, RESUME or CHAN_LIST frame is
\* handled at once, a CHAN_LIST_REQ frame starts channels[0].tx of the answer,
\* a data frame starts _add_to_rx_buf
RxFrame(e) ==
  LET w == rxw[e]
      p == Peer(e)
      rx_frame == FromBytes(Head(wire[p]))
      known == rx_frame.ackchan \in DOMAIN channels[e] IN
  /\ w.pc = "frame_rx"
  /\ wire[p] # <<>>
  /\ wire' = [wire EXCEPT ![p] = Tail(@)]
  /\ IF rx_frame.type = "ChanListFrame"
     THEN /\ chan_list' = [chan_list EXCEPT ![e] = rx_frame.open_channels_nums]
          /\ chan0_res_event' = [chan0_res_event EXCEPT ![e] = TRUE]
          /\ UNCHANGED <<channels, tx_pool, rxw>>
     ELSE
     /\ UNCHANGED <<chan_list, chan0_res_event>>
     /\ IF rx_frame.type = "error"
        THEN /\ rxw' = [rxw EXCEPT ![e] = Die(w, "Exception")]
             /\ UNCHANGED <<channels, tx_pool>>
        ELSE IF rx_frame.type = "ChanListReqFrame"
        THEN /\ channels' = [channels EXCEPT ![e][0].ack_done = FALSE]
             /\ rxw' = [rxw EXCEPT ![e] =
                          [w EXCEPT !.pc = "ack_enq",
                                    !.dat = ChanListBytes(DOMAIN channels[e])]]
             /\ UNCHANGED tx_pool
        ELSE IF rx_frame.type = "AckFrame"
        THEN IF ~known
             THEN /\ rxw' = [rxw EXCEPT ![e] = Die(w, "KeyError")]
                  /\ UNCHANGED <<channels, tx_pool>>
             ELSE LET r == ack_tx(channels[e][rx_frame.ackchan], rx_frame.buf_level) IN
                  /\ channels' = [channels EXCEPT ![e][rx_frame.ackchan] = r.ch]
                  /\ tx_pool' = IF r.post
                                THEN [tx_pool EXCEPT ![e] = PoolPut(@, rx_frame.ackchan)]
                                ELSE tx_pool
                  /\ UNCHANGED rxw
        ELSE IF rx_frame.type = "ResumeFrame"
        THEN IF ~known
             THEN /\ rxw' = [rxw EXCEPT ![e] = Die(w, "KeyError")]
                  /\ UNCHANGED <<channels, tx_pool>>
             ELSE /\ channels' = [channels EXCEPT ![e][rx_frame.ackchan] =
                                    resume_tx(@, rx_frame.buf_level)]
                  /\ tx_pool' = [tx_pool EXCEPT ![e] = PoolPut(@, rx_frame.ackchan)]
                  /\ UNCHANGED rxw
        ELSE /\ rxw' = [rxw EXCEPT ![e] =
                          IF rx_frame.channel \in DOMAIN channels[e]
                          THEN [w EXCEPT !.pc = "put_enq", !.chan = rx_frame.channel,
                                         !.dat = rx_frame.data, !.cnt = 0,
                                         !.all = Len(rx_frame.data)]
                          ELSE Die(w, "KeyError")]
             /\ UNCHANGED <<channels, tx_pool>>
  /\ UNCHANGED <<rx_pool, tx_trace, txw, usr, sent, got>>

\* _add_to_rx_buf -> Buf.put(dat) with block=True, one byte: MQueue.put;
\* Full fails `assert(not block)`
RxPutEnq(e) ==
  LET w == rxw[e]
      b == channels[e][w.chan].rx_buf IN
  /\ w.pc = "put_enq"
  /\ IF QueueFull(b)
     THEN /\ rxw' = [rxw EXCEPT ![e] = Die(w, "AssertionError")]
          /\ UNCHANGED <<channels, rx_pool, usr>>
     ELSE /\ channels' = [channels EXCEPT ![e][w.chan].rx_buf.buf = Append(@, Head(w.dat))]
          /\ rx_pool' = [rx_pool EXCEPT ![e] = PoolPut(@, w.chan)]
          /\ usr' = EventSet(e)
          /\ rxw' = [rxw EXCEPT ![e].pc = "put_cnt", ![e].dat = Tail(@)]
  /\ UNCHANGED <<tx_pool, wire, tx_trace, txw, sent, got,
               chan_list, chan0_res_event>>

\* Buf.put: self.cnt += 1.  After the last byte: the rest of _add_to_rx_buf,
\* AckFrame(ackchan, buf_level) and the start of channels[0].tx(ack_frame.bytes)
RxPutCnt(e) ==
  LET w == rxw[e]
      ch == channels[e][w.chan]
      b == [ch.rx_buf EXCEPT !.cnt = @ + 1]
      cnt == w.cnt + 1
      buf_level == add_to_rx_buf_level(b, cnt, w.all) IN
  /\ w.pc = "put_cnt"
  /\ IF w.dat # <<>>
     THEN /\ channels' = [channels EXCEPT ![e][w.chan].rx_buf = b]
          /\ rxw' = [rxw EXCEPT ![e].pc = "put_enq", ![e].cnt = cnt]
     ELSE /\ channels' = [channels EXCEPT
                            ![e][w.chan].rx_buf = b,
                            ![e][w.chan].rx_stalled =
                               IF add_to_rx_buf_stalls(b, cnt, w.all) THEN TRUE ELSE @,
                            ![e][0].ack_done =
                               IF AckLevelOk(ch.num, buf_level) THEN FALSE ELSE @]
          /\ rxw' = [rxw EXCEPT ![e] =
                       IF AckLevelOk(ch.num, buf_level)
                       THEN [w EXCEPT !.pc = "ack_enq", !.cnt = cnt,
                                      !.dat = AckBytes(AckFrame_INS, ch.num, buf_level)]
                       ELSE Die(w, "OverflowError")]
  /\ UNCHANGED <<tx_pool, rx_pool, wire, tx_trace, txw, usr, sent, got,
               chan_list, chan0_res_event>>

\* channels[0].tx(ack_frame.bytes) -> Buf.put, one byte: MQueue.put
RxAckEnq(e) ==
  LET w == rxw[e]
      b == channels[e][0].tx_buf IN
  /\ w.pc = "ack_enq"
  /\ IF QueueFull(b)
     THEN /\ rxw' = [rxw EXCEPT ![e] = Die(w, "AssertionError")]
          /\ UNCHANGED <<channels, tx_pool>>
     ELSE /\ channels' = [channels EXCEPT ![e][0].tx_buf.buf = Append(@, Head(w.dat))]
          /\ tx_pool' = [tx_pool EXCEPT ![e] = PoolPut(@, 0)]
          /\ rxw' = [rxw EXCEPT ![e].pc = "ack_cnt", ![e].dat = Tail(@)]
  /\ UNCHANGED <<rx_pool, wire, tx_trace, txw, usr, sent, got,
               chan_list, chan0_res_event>>

\* Buf.put: self.cnt += 1; after the last byte the worker reads the next frame
RxAckCnt(e) ==
  LET w == rxw[e] IN
  /\ w.pc = "ack_cnt"
  /\ channels' = [channels EXCEPT ![e][0].tx_buf.cnt = @ + 1]
  /\ rxw' = [rxw EXCEPT ![e] = IF w.dat = <<>> THEN RxWorkerInit
                                ELSE [w EXCEPT !.pc = "ack_enq"]]
  /\ UNCHANGED <<tx_pool, rx_pool, wire, tx_trace, txw, usr, sent, got,
               chan_list, chan0_res_event>>

(* ------------------------------ tx worker ----------------------------- *)
\* MCom.__frame_tx -> SocketComDriver.tx: the assertion on the length
ComTxOk(bytes) == Len(bytes) % DATA_UNIT_SIZE = 0

\* the transport and the trace after e has written the frames fs
Written(e, fs) ==
  /\ wire' = [wire EXCEPT ![e] = @ \o fs]
  /\ tx_trace' = [tx_trace EXCEPT ![e] = @ \o fs]

resume_frames_unstalled(ch) ==
  IF free_size(ch.rx_buf) > 0
  THEN <<AckBytes(ResumeFrame_INS, ch.num, free_size(ch.rx_buf))>>
  ELSE <<>>

\* tx_worker, lines 425-432 and 434-440: the RESUME frame the worker sends for
\* channel ch, as a sequence of zero or one frame
resume_frames(ch) ==
  IF ch.rx_stalled /\ free_size(ch.rx_buf) > 0
  THEN <<AckBytes(ResumeFrame_INS, ch.num, free_size(ch.rx_buf))>>
  ELSE <<>>

has_tx_nocredit(ch) == ch.tx_buf.cnt > 0

\* Channel._has_tx
has_tx(ch) == IF ch.tx_max_bytes = None THEN FALSE ELSE ch.tx_buf.cnt > 0

\* tx_worker's iter(self._tx_pool.get_queue, None): get_queue(block=True) returns
\* once with_new_dat is not empty (at once in the first locked section, or in
\* the second one after the event is set: the tx worker is the pool's only
\* consumer, so the set is not empty there); it pops any element and clears
\* the event.  None (posted by close_connection) ends the loop and the thread.
\* For channel 0 the worker then starts _get_from_tx_buf(length=4).
TxGetQueue(e) ==
  /\ txw[e].pc = "get_queue"
  /\ \E q \in tx_pool[e].with_new_dat :
       /\ tx_pool' = [tx_pool EXCEPT ![e] = [with_new_dat |-> @.with_new_dat \ {q},
                                              e |-> FALSE]]
       /\ IF q = None
          THEN /\ txw' = [txw EXCEPT ![e].pc = "done"]
               /\ UNCHANGED channels
          ELSE IF q = 0
          THEN /\ channels' = [channels EXCEPT ![e][0].tx_max_bytes = None]
               /\ txw' = [txw EXCEPT ![e].pc = "get", ![e].q = 0,
                            ![e].kind = "ch0_head", ![e].need = DATA_UNIT_SIZE,
                            ![e].out = <<>>, ![e].head = <<>>]
          ELSE /\ txw' = [txw EXCEPT ![e].pc = "data_chan", ![e].q = q]
               /\ UNCHANGED channels
  /\ UNCHANGED <<rx_pool, wire, tx_trace, rxw, usr, sent, got,
               chan_list, chan0_res_event>>

\* Buf.get has left its loop with the bytes out; chs is channels after the
\* last byte.  tx side: self.tx_buf += out.  Then the worker goes on:
\*   head of a channel-0 frame: nothing read -> continue; large frame -> read
\*     the tail with block=True; small frame -> __frame_tx
\*   tail of a channel-0 frame -> __frame_tx
\*   data channel -> Frame(chan, data), __frame_tx
GetDone(e, chs, out) ==
  LET w == txw[e]
      chs2 == [chs EXCEPT ![e][w.q].tx_buf.tx_buf = @ \o out]
      framebytes == w.head \o out
      frame == FrameBytes(w.q, out) IN
  IF w.kind = "data"
  THEN /\ channels' = chs2
       /\ IF FrameOk(w.q, out)
          THEN /\ Written(e, <<frame>>)
               /\ txw' = [txw EXCEPT ![e] = TxWorkerInit]
          ELSE /\ txw' = [txw EXCEPT ![e] = Die(w, "AssertionError")]
               /\ UNCHANGED <<wire, tx_trace>>
  ELSE IF w.kind = "ch0_head" /\ Len(out) = 0
  THEN /\ channels' = chs2
       /\ txw' = [txw EXCEPT ![e] = TxWorkerInit]
       /\ UNCHANGED <<wire, tx_trace>>
  ELSE IF w.kind = "ch0_head" /\ out[1] \div 64 = 0
  THEN /\ channels' = chs2
       /\ txw' = [txw EXCEPT ![e] =
                    IF Len(out) < 2 THEN Die(w, "IndexError")
                    ELSE [w EXCEPT !.pc = "get", !.kind = "ch0_tail",
                                   !.head = out, !.out = <<>>,
                                   !.need = TailDataUnits(out) * DATA_UNIT_SIZE]]
       /\ UNCHANGED <<wire, tx_trace>>
  ELSE /\ channels' = chs2
       /\ IF ComTxOk(framebytes)
          THEN /\ Written(e, <<framebytes>>)
               /\ txw' = [txw EXCEPT ![e] = [TxWorkerInit EXCEPT !.pc = "ch0_post",
                                                             !.head = framebytes]]
          ELSE /\ txw' = [txw EXCEPT ![e] = Die(w, "AssertionError")]
               /\ UNCHANGED <<wire, tx_trace>>

\* Buf.get called by the tx worker, one turn of its loop: Queue.get(block),
\* self.cnt -= 1, assert(self.cnt >= 0); Empty ends a non-blocking get.
\* (Only the tx worker reads this cnt between the two statements.)
TxGet(e) ==
  LET w == txw[e]
      b == channels[e][w.q].tx_buf
      chs == [channels EXCEPT ![e][w.q].tx_buf.buf = Tail(@),
                              ![e][w.q].tx_buf.cnt = @ - 1]
      out == Append(w.out, Head(b.buf)) IN
  /\ w.pc = "get"
  /\ IF b.buf = <<>>
     THEN /\ w.kind # "ch0_tail"
          /\ GetDone(e, channels, w.out)
     ELSE IF b.cnt - 1 < 0
     THEN /\ channels' = chs
          /\ txw' = [txw EXCEPT ![e] = Die(w, "AssertionError")]
          /\ UNCHANGED <<wire, tx_trace>>
     ELSE IF w.need = 1
     THEN GetDone(e, chs, out)
     ELSE /\ channels' = chs
          /\ txw' = [txw EXCEPT ![e].pc = "get", ![e].need = @ - 1, ![e].out = out]
          /\ UNCHANGED <<wire, tx_trace>>
  /\ UNCHANGED <<tx_pool, rx_pool, rxw, usr, sent, got,
               chan_list, chan0_res_event>>

\* tx_worker after __frame_tx of a channel-0 frame: Frame.from_bytes; for an
\* AckFrame: ack_done := True and, if the channel is rx_stalled with free
\* space, a RESUME frame
TxCh0Post(e) ==
  LET w == txw[e]
      frame == FromBytes(w.head)
      ch == channels[e][frame.ackchan]
      rs == resume_frames(ch) IN
  /\ w.pc = "ch0_post"
  /\ IF frame.type = "error"
     THEN /\ txw' = [txw EXCEPT ![e] = Die(w, "AssertionError")]
          /\ UNCHANGED <<channels, wire, tx_trace>>
     ELSE IF frame.type # "AckFrame"
     THEN /\ txw' = [txw EXCEPT ![e] = TxWorkerInit]
          /\ UNCHANGED <<channels, wire, tx_trace>>
     ELSE IF frame.ackchan \notin DOMAIN channels[e]
     THEN /\ txw' = [txw EXCEPT ![e] = Die(w, "KeyError")]
          /\ UNCHANGED <<channels, wire, tx_trace>>
     ELSE /\ channels' = [channels EXCEPT
                            ![e][frame.ackchan].ack_done = TRUE,
                            ![e][frame.ackchan].rx_stalled =
                               IF rs # <<>> THEN FALSE ELSE @]
          /\ Written(e, rs)
          /\ txw' = [txw EXCEPT ![e] = TxWorkerInit]
  /\ UNCHANGED <<tx_pool, rx_pool, rxw, usr, sent, got,
               chan_list, chan0_res_event>>

\* tx_worker, data channel: RESUME if rx_stalled and ack_done and free space;
\* then, if _has_tx(), _get_from_tx_buf() starts: length := tx_max_bytes,
\* tx_max_bytes := None
TxDataChan(e) ==
  LET w == txw[e]
      ch == channels[e][w.q]
      rs == IF ch.ack_done THEN resume_frames(ch) ELSE <<>> IN
  /\ w.pc = "data_chan"
  /\ Written(e, rs)
  /\ channels' = [channels EXCEPT
                    ![e][w.q].rx_stalled = IF rs # <<>> THEN FALSE ELSE @,
                    ![e][w.q].tx_max_bytes = IF has_tx(ch) THEN None ELSE @]
  /\ txw' = [txw EXCEPT ![e] =
               IF has_tx(ch)
               THEN [w EXCEPT !.pc = "get", !.kind = "data", !.out = <<>>,
                              !.head = <<>>, !.need = ch.tx_max_bytes]
               ELSE TxWorkerInit]
  /\ UNCHANGED <<tx_pool, rx_pool, rxw, usr, sent, got,
               chan_list, chan0_res_event>>

(* -------------------------------- peer -------------------------------- *)
\* the peer's rx side: it reads a data frame of n bytes and answers with
\* ACK(chan, -j) after accepting only j of them (0 < j < n), or with
\* ACK(chan, free) after accepting all (free > 0)
PeerAck(e) ==
  LET p == Peer(e)
      rx_frame == FromBytes(Head(wire[p])) IN
  /\ wire[p] # <<>>
  /\ rx_frame.type = "Frame"
  /\ \E buf_level \in {-j : j \in 1..(Len(rx_frame.data) - 1)} \cup 1..MaxPeerFree :
       /\ wire' = [wire EXCEPT ![p] = Tail(@),
                               ![e] = Append(@, AckBytes(AckFrame_INS, rx_frame.channel,
                                                         buf_level))]
       /\ tx_trace' = [tx_trace EXCEPT ![e] =
                         Append(@, AckBytes(AckFrame_INS, rx_frame.channel, buf_level))]
       /\ channels' = [channels EXCEPT ![e][rx_frame.channel].rx_stalled = buf_level < 0]
  /\ UNCHANGED <<tx_pool, rx_pool, txw, rxw, usr, sent, got, chan_list,
                 chan0_res_event>>

\* the peer's tx side: RESUME(chan, free) for a channel that is stalled
PeerResume(e) ==
  \E c \in DOMAIN channels[e] \ {0} :
    /\ channels[e][c].rx_stalled
    /\ \E buf_level \in 1..MaxPeerFree :
         Written(e, <<AckBytes(ResumeFrame_INS, c, buf_level)>>)
    /\ channels' = [channels EXCEPT ![e][c].rx_stalled = FALSE]
    /\ UNCHANGED <<tx_pool, rx_pool, txw, rxw, usr, sent, got, chan_list,
                   chan0_res_event>>

\* the transport of e delivers one more frame, any of PeerFrames, to the rx
\* worker of the other side
PeerWrites(e) ==
  /\ Len(tx_trace[e]) < MaxInject
  /\ \E f \in PeerFrames : Written(e, <<f>>)
  /\ UNCHANGED <<channels, tx_pool, rx_pool, txw, rxw, usr, sent, got, chan_list,
                 chan0_res_event>>

(* --------------------------- specification ---------------------------- *)
Next ==
  \/ \E t \in DOMAIN usr : UserCall(t)
  \/ \E t \in DOMAIN usr : UserPutEnq(t)
  \/ \E t \in DOMAIN usr : UserPutCnt(t)
  \/ \E t \in DOMAIN usr : UserGetDeq(t)
  \/ \E t \in DOMAIN usr : UserGetDec(t)
  \/ \E t \in DOMAIN usr : UserGetRet(t)
  \/ \E e \in E : RxFrame(e)
  \/ \E e \in E : RxPutEnq(e)
  \/ \E e \in E : RxPutCnt(e)
  \/ \E e \in E : RxAckEnq(e)
  \/ \E e \in E : RxAckCnt(e)
  \/ \E e \in E : TxGetQueue(e)
  \/ \E e \in E : TxGet(e)
  \/ \E e \in E : TxCh0Post(e)
  \/ \E e \in E : TxDataChan(e)

\* the steps of a system in which no user calls rx
NextNoRx ==
  \/ \E t \in DOMAIN usr : UserCall(t)
  \/ \E t \in DOMAIN usr : UserPutEnq(t)
  \/ \E t \in DOMAIN usr : UserPutCnt(t)
  \/ \E e \in E : RxFrame(e)
  \/ \E e \in E : RxPutEnq(e)
  \/ \E e \in E : RxPutCnt(e)
  \/ \E e \in E : RxAckEnq(e)
  \/ \E e \in E : RxAckCnt(e)
  \/ \E e \in E : TxGetQueue(e)
  \/ \E e \in E : TxGet(e)
  \/ \E e \in E : TxCh0Post(e)
  \/ \E e \in E : TxDataChan(e)

\* the steps of a system whose users call chan_list_req, close_connection and
\* tx, but not rx
NextChanList ==
  \/ \E t \in DOMAIN usr : UserCall(t)
  \/ \E t \in DOMAIN usr : UserChanListReq(t)
  \/ \E t \in DOMAIN usr : UserEventWait(t)
  \/ \E t \in DOMAIN usr : UserCloseConnection(t)
  \/ \E t \in DOMAIN usr : UserPutEnq(t)
  \/ \E t \in DOMAIN usr : UserPutCnt(t)
  \/ \E e \in E : RxFrame(e)
  \/ \E e \in E : RxPutEnq(e)
  \/ \E e \in E : RxPutCnt(e)
  \/ \E e \in E : RxAckEnq(e)
  \/ \E e \in E : RxAckCnt(e)
  \/ \E e \in E : TxGetQueue(e)
  \/ \E e \in E : TxGet(e)
  \/ \E e \in E : TxCh0Post(e)
  \/ \E e \in E : TxDataChan(e)

\* the steps of a system whose worker threads have not been started and
\* whose users call tx
NextTxNoBlock ==
  \/ \E t \in DOMAIN usr : UserCall(t)
  \/ \E t \in DOMAIN usr : UserPutEnq(t)
  \/ \E t \in DOMAIN usr : UserPutCnt(t)

\* the steps of a system whose users call rx with a timeout
NextRxTimeout ==
  \/ \E t \in DOMAIN usr : UserCall(t)
  \/ \E t \in DOMAIN usr : UserPutEnq(t)
  \/ \E t \in DOMAIN usr : UserPutCnt(t)
  \/ \E t \in DOMAIN usr : UserGetDeq(t)
  \/ \E t \in DOMAIN usr : UserGetTimeout(t)
  \/ \E t \in DOMAIN usr : UserGetDec(t)
  \/ \E t \in DOMAIN usr : UserGetRet(t)
  \/ \E e \in E : RxFrame(e)
  \/ \E e \in E : RxPutEnq(e)
  \/ \E e \in E : RxPutCnt(e)
  \/ \E e \in E : RxAckEnq(e)
  \/ \E e \in E : RxAckCnt(e)
  \/ \E e \in E : TxGetQueue(e)
  \/ \E e \in E : TxGet(e)
  \/ \E e \in E : TxCh0Post(e)
  \/ \E e \in E : TxDataChan(e)

\* the steps of a thread that builds and decodes frames
NextCodec ==
  \/ \E t \in DOMAIN usr : FrameNew(t)
  \/ \E t \in DOMAIN usr : FrameFromBytes(t)

\* the steps of the host's threads facing such a peer
NextPeer ==
  \/ \E t \in DOMAIN usr : UserCall(t)
  \/ \E t \in DOMAIN usr : UserPutEnq(t)
  \/ \E t \in DOMAIN usr : UserPutCnt(t)
  \/ \E e \in {"H"} : RxFrame(e)
  \/ \E e \in {"H"} : TxGetQueue(e)
  \/ \E e \in {"H"} : TxGet(e)
  \/ \E e \in {"H"} : TxDataChan(e)
  \/ \E e \in {"D"} : PeerAck(e)
  \/ \E e \in {"D"} : PeerResume(e)

\* the steps of a system whose worker threads have not been started and
\* whose users call open_channel
NextOpen ==
  \/ \E t \in DOMAIN usr : UserOpenChannel(t)

\* the steps of a system whose only user calls chan_list_req
NextPending ==
  \/ \E t \in DOMAIN usr : UserChanListReq(t)
  \/ \E t \in DOMAIN usr : UserEventWait(t)
  \/ \E t \in DOMAIN usr : UserPutEnq(t)
  \/ \E t \in DOMAIN usr : UserPutCnt(t)
  \/ \E e \in E : RxFrame(e)
  \/ \E e \in E : RxAckEnq(e)
  \/ \E e \in E : RxAckCnt(e)
  \/ \E e \in E : TxGetQueue(e)
  \/ \E e \in E : TxGet(e)
  \/ \E e \in E : TxCh0Post(e)

\* the steps of a system whose users call tx and rx(channel=None)
NextAnyRx ==
  \/ \E t \in DOMAIN usr : UserCall(t)
  \/ \E t \in DOMAIN usr : UserPutEnq(t)
  \/ \E t \in DOMAIN usr : UserPutCnt(t)
  \/ \E t \in DOMAIN usr : UserRxAny(t)
  \/ \E t \in DOMAIN usr : UserPoolWait(t)
  \/ \E t \in DOMAIN usr : UserPoolSecond(t)
  \/ \E t \in DOMAIN usr : UserGetDeq(t)
  \/ \E t \in DOMAIN usr : UserGetDec(t)
  \/ \E t \in DOMAIN usr : UserGetRet(t)
  \/ \E e \in E : RxFrame(e)
  \/ \E e \in E : RxPutEnq(e)
  \/ \E e \in E : RxPutCnt(e)
  \/ \E e \in E : RxAckEnq(e)
  \/ \E e \in E : RxAckCnt(e)
  \/ \E e \in E : TxGetQueue(e)
  \/ \E e \in E : TxGet(e)
  \/ \E e \in E : TxCh0Post(e)
  \/ \E e \in E : TxDataChan(e)

\* the steps of a system without user threads whose device receives any frames
NextBadFrame ==
  \/ \E e \in {"H"} : PeerWrites(e)
  \/ \E e \in E : RxFrame(e)
  \/ \E e \in E : RxPutEnq(e)
  \/ \E e \in E : RxPutCnt(e)
  \/ \E e \in E : RxAckEnq(e)
  \/ \E e \in E : RxAckCnt(e)
  \/ \E e \in E : TxGetQueue(e)
  \/ \E e \in E : TxGet(e)
  \/ \E e \in E : TxCh0Post(e)
  \/ \E e \in E : TxDataChan(e)

Spec == Init /\ [][Next]_vars
SpecStall == InitStall /\ [][Next]_vars
SpecFlood == InitFlood /\ [][NextNoRx]_vars
Spec2Chan == Init2Chan /\ [][Next]_vars
SpecEcho == InitEcho /\ [][Next]_vars
SpecChanList == InitChanList /\ [][NextChanList]_vars
SpecTxNoBlock == InitTxNoBlock /\ [][NextTxNoBlock]_vars
SpecRxTimeout == InitRxTimeout /\ [][NextRxTimeout]_vars
SpecCodec == InitCodec /\ [][NextCodec]_vars
SpecPeer == InitPeer /\ [][NextPeer]_vars
SpecOpen == InitOpen /\ [][NextOpen]_vars

\* no thread can take a step: every thread has ended or waits for ever
SpecPending == InitPending /\ [][NextPending]_vars
SpecAnyRx == InitAnyRx /\ [][NextAnyRx]_vars
SpecBigRx == InitBigRx /\ [][NextNoRx]_vars
SpecBadFrame == InitBadFrame /\ [][NextBadFrame]_vars
Terminated == ~ENABLED Next

TerminatedChanList == ~ENABLED NextChanList

\* the data channels of the engines
DataChans == DOMAIN channels["H"] \ {0}

(* ----------------------------- properties ------------------------------ *)
IsPrefix(s, t) == Len(s) <= Len(t) /\ s = SubSeq(t, 1, Len(s))

\* C1: on every data channel the bytes the peer's user has obtained from rx
\* are at all times a prefix of the bytes accepted by tx (nothing lost,
\* duplicated or reordered)
C1_InOrderExactlyOnce ==
  \A e \in E : \A c \in DataChans : IsPrefix(got[Peer(e)][c], sent[e][c])

\* the frames of kind type about data channel c that e's tx worker has written
CtrlWritten(e, type, c) ==
  {i \in 1..Len(tx_trace[e]) :
     /\ FromBytes(tx_trace[e][i]).type = type
     /\ FromBytes(tx_trace[e][i]).ackchan = c}

\* the data frames on channel c in a sequence of written frames
DataFrames(fs, c) ==
  {i \in 1..Len(fs) : FromBytes(fs[i]).type = "Frame" /\ FromBytes(fs[i]).channel = c}

\* the number of data frames on channel c that e's rx worker has read from the
\* transport
FramesTaken(e, c) ==
  Cardinality(DataFrames(tx_trace[Peer(e)], c)) - Cardinality(DataFrames(wire[Peer(e)], c))

\* no worker has ended with an exception and no user call has raised one
NoFailure ==
  /\ \A e \in E : txw[e].pc # "dead" /\ rxw[e].pc # "dead"
  /\ \A t \in DOMAIN usr : usr[t].exc = 0

\* C2: a channel that stalled and from which the user's rx has since removed a
\* byte does not stay stalled: when every thread has come to rest, none of
\* them by an exception, no channel has rx_stalled set and free space in its
\* rx buffer (the RESUME that ends the stall was written)
C2_ResumeAfterDrain ==
  (Terminated /\ NoFailure) =>
    \A e \in E : \A c \in DataChans :
      ~(channels[e][c].rx_stalled /\ free_size(channels[e][c].rx_buf) > 0)

\* the step writes a RESUME for channel c on e's transport
ResumeWritten(e, c) ==
  /\ Len(tx_trace'[e]) > Len(tx_trace[e])
  /\ LET f == FromBytes(tx_trace'[e][Len(tx_trace'[e])])
     IN f.type = "ResumeFrame" /\ f.ackchan = c

\* C3: when a RESUME for channel c is written, the ACK of every data frame
\* received on c, the stalling frame included, has been written before it
C3_ResumeAfterAck ==
  [][\A e \in E : \A c \in DataChans :
       ResumeWritten(e, c) =>
         Cardinality(CtrlWritten(e, "AckFrame", c)) = FramesTaken(e, c)]_vars

\* C4: no ACK is written without a received data frame, none for channel 0,
\* and when every thread has come to rest, the tx workers still running, each
\* received data frame has had exactly one ACK written
C4_OneAckPerFrame ==
  /\ \A e \in E : CtrlWritten(e, "AckFrame", 0) = {}
  /\ \A e \in E : \A c \in DataChans :
       Cardinality(CtrlWritten(e, "AckFrame", c)) <= FramesTaken(e, c)
  /\ (Terminated /\ \A e \in E : txw[e].pc # "dead") =>
       \A e \in E : \A c \in DataChans :
         Cardinality(CtrlWritten(e, "AckFrame", c)) = FramesTaken(e, c)

\* the bytes that rx calls on channel c of e have taken out of the rx buffer
Delivered(e, c) ==
  LET ts == {t \in DOMAIN usr : usr[t].e = e /\ usr[t].c = c
                                /\ usr[t].pc \in {"get_deq", "get_dec", "get_ret"}}
  IN IF ts = {} THEN got[e][c]
     ELSE got[e][c] \o usr[CHOOSE t \in ts : TRUE].out

\* C5: with channel 1 never read on the device, what the host sent on channel
\* 2 is delivered in full once every thread has come to rest
C5_NoCrossChannelBlocking ==
  Terminated => Delivered("D", 2) = sent["H"][2] /\ Len(sent["H"][2]) = MaxChanBytes

\* C6: the echo of n bytes completes: when every thread has come to rest both
\* users have finished their calls and the host has received what it sent
C6_EchoCompletes ==
  Terminated =>
    /\ \A t \in DOMAIN usr : usr[t].pc = "idle" /\ usr[t].todo = <<>>
    /\ got["H"][1] = sent["H"][1]
    /\ sent["H"][1] # <<>>

\* C7: no blocking call of Channel.tx ends with an exception
C7_BlockingTxNeverFails ==
  \A t \in DOMAIN usr : usr[t].exc = 0

\* no put or get on buffer b of channel c of engine e is in progress
BufIdle(e, c, dir) ==
  /\ \A t \in DOMAIN usr :
       (usr[t].e = e /\ usr[t].c = c) =>
         IF dir = "tx" THEN usr[t].pc \notin {"put_enq", "put_cnt"}
         ELSE usr[t].pc \notin {"get_deq", "get_dec"}
  /\ dir = "rx" => ~(rxw[e].pc \in {"put_enq", "put_cnt"} /\ rxw[e].chan = c)
  /\ dir = "tx" /\ c = 0 => rxw[e].pc \notin {"ack_enq", "ack_cnt"}
  /\ dir = "tx" => ~(txw[e].pc = "get" /\ txw[e].q = c)

\* C8: 0 <= cnt <= size for every buffer, cnt is the length of the queue when
\* no operation on the buffer is in progress, and an rx buffer never holds
\* more bytes than its size
C8_CntTracksQueue ==
  \A e \in E : \A c \in DOMAIN channels[e] :
    /\ channels[e][c].rx_buf.cnt >= 0 /\ channels[e][c].tx_buf.cnt >= 0
    /\ channels[e][c].rx_buf.cnt <= channels[e][c].rx_buf.size
    /\ channels[e][c].tx_buf.cnt <= channels[e][c].tx_buf.size
    /\ Len(channels[e][c].rx_buf.buf) <= channels[e][c].rx_buf.size
    /\ BufIdle(e, c, "rx") => channels[e][c].rx_buf.cnt = Len(channels[e][c].rx_buf.buf)
    /\ BufIdle(e, c, "tx") => channels[e][c].tx_buf.cnt = Len(channels[e][c].tx_buf.buf)

\* the frames scenario S2 puts on the wire, in order
S2HostFrames ==
  <<FrameBytes(1, <<1, 2, 3, 4>>), FrameBytes(1, <<5, 6, 7, 8>>)>>

\* the i-th frame the device writes in scenario S2
S2DeviceFrame(i, f) ==
  \/ i = 1 /\ f = AckBytes(AckFrame_INS, 1, -buffer_length)
  \/ i = 2 /\ f = AckBytes(ResumeFrame_INS, 1, buffer_length)
  \/ i = 3 /\ FromBytes(f).type = "AckFrame" /\ FromBytes(f).ackchan = 1

\* C9: in scenario S2 the frames the host has written are at all times the
\* first frames of DATA(ch1, bytes 1..4, large format), DATA(ch1, bytes 5..8),
\* and the frames the device has written are the first frames of ACK(1, -4),
\* RESUME(1, 4), ACK(1, any level)
C9_StallResumeTrace ==
  /\ IsPrefix(tx_trace["H"], S2HostFrames)
  /\ \A i \in 1..Len(tx_trace["D"]) : S2DeviceFrame(i, tx_trace["D"][i])

\* a complete ACK posted by the rx worker waits in channel 0's tx buffer
AckPosted(e) ==
  /\ channels[e][0].tx_buf.cnt = DATA_UNIT_SIZE
  /\ Len(channels[e][0].tx_buf.buf) = DATA_UNIT_SIZE
  /\ rxw[e].pc \notin {"ack_enq", "ack_cnt"}

\* C10: while a posted ACK waits in channel 0's tx buffer the tx worker
\* neither writes a RESUME nor starts to build a data frame
C10_AckFirst ==
  [][\A e \in E :
       (AckPosted(e) /\ TxDataChan(e))
         => (tx_trace'[e] = tx_trace[e] /\ txw'[e].pc # "get")]_vars

\* close_connection has returned on engine e
Closed(e) ==
  \E t \in DOMAIN usr \cap {"host", "d_close"} :
    usr[t].e = e /\ usr[t].todo = <<>> /\ usr[t].pc = "idle"

\* C11: once close_connection has been called on an engine and no thread can
\* take a further step, that engine's tx worker has ended (it has taken the
\* sentinel, or an exception has ended it): it is not left waiting
C11_TxWorkerTerminates ==
  \A e \in E : (TerminatedChanList /\ Closed(e)) => txw[e].pc \in {"done", "dead"}

\* second half of C11: a tx worker that has taken the sentinel writes nothing
C11_NoWriteAfterSentinel ==
  [][\A e \in E : txw[e].pc = "done" => tx_trace'[e] = tx_trace[e]]_vars

\* C12: when the device's user does nothing, no tx worker has failed and no
\* thread can take a further step, the host's chan_list_req has returned, and
\* it has returned the set of the channels open on the device
C12_ChanListReqReturns ==
  (TerminatedChanList /\ DOMAIN usr = {"host"} /\ \A e \in E : txw[e].pc # "dead")
    => /\ usr["host"].pc = "idle"
       /\ usr["host"].chans = DOMAIN channels["D"]

Min(a, b) == IF a < b THEN a ELSE b

C14_TimeoutLeavesBuffer ==
  \A t \in DOMAIN usr :
    LET u == usr[t]
        b == channels[u.e][u.c].rx_buf IN
    u.err = "Empty" => (IsPrefix(u.pre.buf, b.buf) /\ b.cnt >= u.pre.cnt)

\* C15: the constructor of a data frame accepts every payload of 1 to 259
\* bytes and rejects one of 260 bytes
C15_FrameLengths ==
  \A t \in DOMAIN usr :
    LET u == usr[t] IN
    (u.frame.type = "Frame" /\ u.pc # "new")
      => /\ Len(u.frame.data) \in 1..259 => u.pc # "raised"
         /\ Len(u.frame.data) = 260 => u.pc = "raised"

\* the frames the round trip is claimed for: data frames with 1 to 259 payload
\* bytes, ACK and RESUME frames with a level in -512..511, CHAN_LIST_REQ and
\* CHAN_LIST frames
Legal(f) ==
  /\ f.type = "Frame" => Len(f.data) \in 1..259
  /\ f.type \in {"AckFrame", "ResumeFrame"} => f.buf_level \in -512..511

\* kind, channel and payload fields of the two frame objects are the same
SameFrame(f, g) ==
  /\ g.type = f.type
  /\ f.type = "Frame" => (g.channel = f.channel /\ g.data = f.data)
  /\ f.type # "Frame" => g.channel = 0
  /\ f.type \in {"AckFrame", "ResumeFrame"}
       => (g.ackchan = f.ackchan /\ g.buf_level = f.buf_level)
  /\ f.type = "ChanListFrame" => g.open_channels_nums = f.open_channels_nums

\* C16: every legal frame is built, and decoding its bytes yields a frame of
\* the same kind, channel and payload fields
C16_RoundTrip ==
  \A t \in DOMAIN usr :
    LET u == usr[t] IN
    (Legal(u.frame) /\ u.pc # "new")
      => /\ u.pc # "raised"
         /\ u.pc = "decoded" => SameFrame(u.frame, u.decoded)

\* C17: for every channel state of the sender and every level n, handling
\* ACK(c, n) a second time changes nothing: tx_max_bytes, the pending bytes
\* and the channel's membership of tx_pool are as after the first time
C17_AckIdempotent ==
  \A c \in DOMAIN channels["H"] : \A n \in -2..2 :
    LET once == ack_tx(channels["H"][c], n)
        twice == ack_tx(once.ch, n)
        pool1 == IF once.post THEN PoolPut(tx_pool["H"], c) ELSE tx_pool["H"]
        pool2 == IF twice.post THEN PoolPut(pool1, c) ELSE pool1 IN
    twice.ch = once.ch /\ pool2 = pool1

\* C18: a call of open_channel with a number that is already open, or with a
\* non-zero rx or tx buffer size below 4, ends with an exception and leaves
\* the channel map and both pools as they were
C18_OpenChannelRejects ==
  [][\A t \in DOMAIN usr :
       LET u == usr[t]
           o == Head(u.todo) IN
       (/\ UserOpenChannel(t)
        /\ \/ o.num \in DOMAIN channels[u.e]
           \/ o.rx_buf_size \in 1..3
           \/ o.tx_buf_size \in 1..3)
         => /\ usr'[t].exc = u.exc + 1
            /\ usr'[t].pc = "raised"
            /\ UNCHANGED <<channels, tx_pool, rx_pool>>]_vars

\* the first call has opened a data channel and the second call, for the same
\* number with sizes that are allowed, has failed
C18_Witness ==
  \E t \in DOMAIN usr :
    LET u == usr[t] IN
    /\ u.pc = "raised" /\ u.exc = 1
    /\ Len(u.todo) = MaxOpen - 1
    /\ Head(u.todo).op = "open_channel"
    /\ Head(u.todo).num # 0
    /\ Head(u.todo).num \in DOMAIN channels[u.e]
    /\ Head(u.todo).rx_buf_size \notin 1..3
    /\ Head(u.todo).tx_buf_size \notin 1..3

\* the bytes are those of one frame: they decode, and the frame they decode
\* to has exactly these bytes
CompleteFrame(bytes) ==
  /\ Len(bytes) > 0
  /\ Len(bytes) % DATA_UNIT_SIZE = 0
  /\ FromBytes(bytes).type # "error"
  /\ NewBytes(FromBytes(bytes)) = bytes

\* C19: everything a tx worker has written is a sequence of complete frames,
\* each of a length that is a multiple of 4
C19_WritesCompleteFrames ==
  \A e \in E : \A i \in 1..Len(tx_trace[e]) : CompleteFrame(tx_trace[e][i])

\* the host's tx worker writes a data frame on channel c in this step
WritesData(c) ==
  /\ Len(tx_trace'["H"]) = Len(tx_trace["H"]) + 1
  /\ FromBytes(tx_trace'["H"][Len(tx_trace'["H"])]).type = "Frame"
  /\ FromBytes(tx_trace'["H"][Len(tx_trace'["H"])]).channel = c

\* C20: a data frame written on a channel whose pending bytes are not empty
\* (a partial ACK has dropped the first of them and a RESUME has arrived)
\* begins with those pending bytes
C20_PendingFirst ==
  [][\A c \in DOMAIN channels["H"] \ {0} :
       WritesData(c)
         => IsPrefix(channels["H"][c].tx_buf.tx_buf,
                     FromBytes(tx_trace'["H"][Len(tx_trace'["H"])]).data)]_vars

\* C21: _add_to_rx_buf never raises: no step of its Buf.put ends the rx worker
\* (when the frame holds more bytes than the rx buffer has free, the first
\* bytes are stored and the others refused)
C21_AddToRxBufNeverRaises ==
  [][\A e \in E : RxPutEnq(e) => rxw'[e].pc # "dead"]_vars

\* the tx worker of e writes a data frame on channel c in this step
WritesDataBy(e, c) ==
  /\ Len(tx_trace'[e]) > Len(tx_trace[e])
  /\ \E i \in (Len(tx_trace[e]) + 1)..Len(tx_trace'[e]) :
       /\ FromBytes(tx_trace'[e][i]).type = "Frame"
       /\ FromBytes(tx_trace'[e][i]).channel = c

\* the tx worker of e starts _get_from_tx_buf for a data frame on channel c
StartsDataFrame(e, c) ==
  /\ txw[e].pc = "data_chan"
  /\ txw[e].q = c
  /\ txw'[e].pc = "get"

C23_PendingBounded ==
  \A e \in E : \A c \in DOMAIN channels[e] :
    Len(channels[e][c].tx_buf.tx_buf) <= channels[e][c].tx_buf.size + MAX_DATA_SIZE

\* the payload bytes of the data frames on channel c among the frames fs
RECURSIVE PayloadBytes(_, _)
PayloadBytes(fs, c) ==
  IF fs = <<>> THEN 0
  ELSE LET f == FromBytes(Head(fs)) IN
       (IF f.type = "Frame" /\ f.channel = c THEN Len(f.data) ELSE 0)
       + PayloadBytes(Tail(fs), c)

\* the bytes the tx worker of e has moved from the tx buffer of channel c into
\* Buf.tx_buf so far: it sends each such slice as one data frame
MovedToPending(e, c) == PayloadBytes(tx_trace[e], c)

\* the bytes stored so far into the rx buffer of channel c of e, where no
\* user reads the channel (SpecFlood): the bytes in the queue
StoredInRxBuf(e, c) == Len(channels[e][c].rx_buf.buf)

\* the payload bytes of the data frames on channel c that e has written and
\* the peer has not stored yet: frames on the transport and the rest of the
\* frame the peer's rx worker is storing
InFlight(e, c) ==
  LET w == rxw[Peer(e)] IN
  PayloadBytes(wire[e], c)
  + (IF w.pc \in {"put_enq", "put_cnt"} /\ w.chan = c THEN Len(w.dat) ELSE 0)

\* C24: on every data channel the bytes moved from the host's tx buffer into
\* pending are the bytes stored into the device's rx buffer plus the payload
\* bytes of the data frames in flight
C24_BytesConserved ==
  \A c \in DataChans : MovedToPending("H", c) = StoredInRxBuf("D", c) + InFlight("H", c)

\* C25: MQueuePool.get_queue(block=True) without a timeout never raises Empty,
\* also with two threads in rx(channel=None) on the same rx pool
C25_BlockingGetQueueNeverEmpty ==
  \A t \in DOMAIN usr : ~(usr[t].pc = "raised" /\ usr[t].err = "Empty")

\* __frame_rx: the number of data units it reads for a frame that starts with
\* the data unit head
RxDataUnits(head) == 1 + TailDataUnits(head)

\* C26: for every frame with a legal payload that the encoder has built, the number
\* of data units __frame_rx reads for it is the number of data units of its bytes; a payload
\* of 3 bytes gives a small frame of 1 data unit, a payload of 4 bytes a large
\* frame of 2 data units whose byte 1 is 0
C26_RxReadsWholeFrame ==
  \A t \in DOMAIN usr :
    LET u == usr[t] IN
    (Legal(u.frame) /\ u.pc \in {"built", "decoded"})
      => /\ Len(u.bytes) = RxDataUnits(SubSeq(u.bytes, 1, DATA_UNIT_SIZE)) * DATA_UNIT_SIZE
         /\ (u.frame.type = "Frame" /\ Len(u.frame.data) = 3)
              => (Len(u.bytes) = DATA_UNIT_SIZE /\ u.bytes[1] \div 64 = 3)
         /\ (u.frame.type = "Frame" /\ Len(u.frame.data) = 4)
              => (Len(u.bytes) = 2 * DATA_UNIT_SIZE /\ u.bytes[1] \div 64 = 0
                  /\ u.bytes[2] = 0)

\* the encoder has built the data frame with the 4-byte payload 1, 2, 3, 4 on
\* channel 1: a large frame of 2 data units
C26_Witness ==
  \E t \in DOMAIN usr :
    /\ usr[t].pc = "built"
    /\ usr[t].frame.type = "Frame"
    /\ usr[t].frame.data = <<1, 2, 3, 4>>
    /\ usr[t].bytes = <<1, 0, 1, 2, 3, 4, 0, 0>>

\* C27: every ACK and RESUME frame written carries a level from -255 to 259,
\* and no AckFrame fails to encode its level (OverflowError of to_bytes)
C27_AckLevelsInRange ==
  \A e \in E :
    /\ rxw[e].err # "OverflowError"
    /\ \A i \in 1..Len(tx_trace[e]) :
         LET f == FromBytes(tx_trace[e][i]) IN
         f.type \in {"AckFrame", "ResumeFrame"} => f.buf_level \in -255..259

\* a frame the rx worker of e cannot dispatch: a channel-0 frame with an
\* unknown INS, or a data, ACK or RESUME frame that names a channel which e
\* has not opened
Undispatchable(e, frame) ==
  LET f == FromBytes(frame) IN
  \/ f.type = "error"
  \/ f.type \in {"AckFrame", "ResumeFrame"} /\ f.ackchan \notin DOMAIN channels[e]
  \/ f.type = "Frame" /\ f.channel \notin DOMAIN channels[e]

\* C28: when the rx worker receives a frame it cannot dispatch, the rx worker
\* ends with an error and the frame changes no field of any channel
C28_BadFrameEndsRxWorker ==
  [][\A e \in E :
       (RxFrame(e) /\ Undispatchable(e, Head(wire[Peer(e)])))
         => (rxw'[e].pc = "dead" /\ channels' = channels /\ tx_pool' = tx_pool)]_vars

\* the device's rx worker has stored the byte of a data frame on channel 1 and
\* has then ended with KeyError on a frame that names the absent channel
C28_Witness ==
  /\ rxw["D"].pc = "dead"
  /\ rxw["D"].err = "KeyError"
  /\ channels["D"][1].rx_buf.buf = <<1>>
  /\ Len(tx_trace["H"]) = 2
  /\ Undispatchable("D", tx_trace["H"][2])

\* C29: the keys of the channel map are numbers from 0 to 63, and each key is
\* the num of its channel
C29_ChannelNumsInRange ==
  \A e \in E : \A n \in DOMAIN channels[e] :
    n \in 0..63 /\ channels[e][n].num = n

\* the frames e's tx worker has written that grant a credit for channel c: ACK
\* frames with a positive level and RESUME frames
GrantsWritten(e, c) ==
  {i \in CtrlWritten(e, "AckFrame", c) : FromBytes(tx_trace[e][i]).buf_level > 0}
  \cup CtrlWritten(e, "ResumeFrame", c)

\* at most as many credit grants written as data frames received, and every
\* RESUME written carries a level from 1 to rx_buf_size
GrantsBounded ==
  \A e \in E : \A c \in DOMAIN channels[e] \ {0} :
    /\ Cardinality(GrantsWritten(e, c)) <= FramesTaken(e, c)
    /\ \A i \in CtrlWritten(e, "ResumeFrame", c) :
         FromBytes(tx_trace[e][i]).buf_level \in 1..channels[e][c].rx_buf.size

\* C30: on every data channel the receiver writes at most one credit grant (an
\* ACK with a positive level, or a RESUME) per data frame received, every
\* RESUME carries a level from 1 to rx_buf_size, and a RESUME is written only
\* for a channel that is rx_stalled
C30_OneGrantPerFrame ==
  /\ []GrantsBounded
  /\ [][\A e \in E : \A c \in DOMAIN channels[e] \ {0} :
         ResumeWritten(e, c) => channels[e][c].rx_stalled]_vars

\* the device has received one data frame on channel 1 that filled the rx
\* buffer, has written its ACK with level 0 and, after the user's rx, the
\* RESUME: one grant for the frame
C30_Witness ==
  /\ FramesTaken("D", 1) = 1
  /\ CtrlWritten("D", "ResumeFrame", 1) # {}
  /\ CtrlWritten("D", "AckFrame", 1) # {}
  /\ Cardinality(GrantsWritten("D", 1)) = 1
  /\ ~channels["D"][1].rx_stalled

\* the credit for channel c that the peer of e has granted last, among the
\* frames e's rx worker has read: the level of the last ACK with a positive
\* level or RESUME, None if there is no such frame
LastGrant(e, c) ==
  LET p == Peer(e)
      n == Len(tx_trace[p]) - Len(wire[p])
      G == {i \in 1..n :
              LET f == FromBytes(tx_trace[p][i]) IN
              /\ f.ackchan = c
              /\ \/ f.type = "AckFrame" /\ f.buf_level > 0
                 \/ f.type = "ResumeFrame"}
  IN IF G = {} THEN None
     ELSE FromBytes(tx_trace[p][CHOOSE i \in G : \A j \in G : j <= i]).buf_level

\* C31: a data frame written on a channel after the first one of the channel
\* carries at most as many bytes as the credit granted last, and when a data
\* frame that is not the first one received on its channel arrives, the rx
\* buffer has room for all its bytes (so it gets no partial ACK)
C31_LaterFramesFit ==
  [][\A e \in E : \A c \in DOMAIN channels[e] \ {0} :
       /\ (WritesDataBy(e, c) /\ DataFrames(tx_trace[e], c) # {})
            => \A i \in (Len(tx_trace[e]) + 1)..Len(tx_trace'[e]) :
                 /\ LastGrant(e, c) # None
                 /\ Len(FromBytes(tx_trace'[e][i]).data) <= LastGrant(e, c)
       /\ (/\ RxFrame(e)
           /\ FromBytes(Head(wire[Peer(e)])).type = "Frame"
           /\ FromBytes(Head(wire[Peer(e)])).channel = c
           /\ FramesTaken(e, c) > 0)
            => Len(FromBytes(Head(wire[Peer(e)])).data)
                 <= channels[e][c].rx_buf.size - Len(channels[e][c].rx_buf.buf)]_vars

\* the host has written a second data frame on channel 1, with as many bytes
\* (more than one) as the credit of the device's ACK of the first, and the
\* device has stored both frames: its rx buffer is full
C31_Witness ==
  /\ Cardinality(DataFrames(tx_trace["H"], 1)) = 2
  /\ FramesTaken("D", 1) = 2
  /\ LastGrant("H", 1) > 1
  /\ \E i \in DataFrames(tx_trace["H"], 1) :
       /\ \E j \in DataFrames(tx_trace["H"], 1) : j < i
       /\ Len(FromBytes(tx_trace["H"][i]).data) = LastGrant("H", 1)
  /\ Len(channels["D"][1].rx_buf.buf) = channels["D"][1].rx_buf.size
  /\ rxw["D"].pc = "ack_enq"

\* the rx worker of e handles a frame that grants a credit for channel c: an
\* ACK with a positive level or a RESUME
GrantStep(e, c) ==
  /\ RxFrame(e)
  /\ LET f == FromBytes(Head(wire[Peer(e)])) IN
     /\ f.ackchan = c
     /\ \/ f.type = "AckFrame" /\ f.buf_level > 0
        \/ f.type = "ResumeFrame"

\* no user thread of e will post a channel to the tx pool any more: each has
\* made all its calls, or is in its last call of tx after the Queue.put of the
\* last byte
NoFurtherPost(e) ==
  \A t \in DOMAIN usr :
    usr[t].e = e =>
      /\ usr[t].role = "script"
      /\ \/ usr[t].pc = "idle" /\ usr[t].todo = <<>>
         \/ usr[t].pc = "put_cnt" /\ Len(usr[t].dat) = 1 /\ Len(usr[t].todo) = 1

\* C32: no wake-up of the tx worker is lost.  When the credit for a channel
\* arrives while bytes accepted during the wait for it are queued in tx_buf,
\* the tx worker having popped the channel and gone back to wait, and no user
\* thread will post the channel again, then the handling of the credit posts
\* the channel to the tx pool (so that the bytes are sent)
C32_NoLostWakeup ==
  [][\A e \in E : \A c \in DOMAIN channels[e] \ {0} :
       (/\ GrantStep(e, c)
        /\ channels[e][c].tx_max_bytes = None
        /\ channels[e][c].tx_buf.buf # <<>>
        /\ txw[e].pc = "get_queue"
        /\ c \notin tx_pool[e].with_new_dat
        /\ NoFurtherPost(e))
         => c \in tx_pool'[e].with_new_dat]_vars

=========================================================================
